---- MODULE Spec2Model ----
(***************************************************************************)
(* A model of the generic-read-buf crate: the ReadBuf "double cursor"      *)
(* (src/src/lib.rs, struct ReadBuf and impl ReadBuf), the read loop        *)
(* protocol (trait Read: read_buf, read_buf_exact, default_read_buf) and   *)
(* the byte source the protocol reads from.                                *)
(*                                                                         *)
(* A cursor is a record [filled, len, mem]: `filled` is ReadBuf::filled,   *)
(* `len` is self.buf.len() (the initialized watermark kept by SimpleVec),  *)
(* and `mem` is the storage, one cell per byte of capacity.  A cell holds  *)
(* a byte value or Uninit, the mark of a byte nobody ever wrote.           *)
(***************************************************************************)
EXTENDS Integers, Sequences, FiniteSets, TLC

\* ------------------------------------------------------------------ bounds

\* Largest capacity of a cursor.
MaxCap == 2
\* Length of the longest byte sequence a source holds.
DataLen == 5
\* usize is modelled as the integers modulo UsizeMod (2^64 in the program).
UsizeMod == 8
\* How many times a source answers "interrupted" to one read_buf_exact.
MaxInterrupts == 2

\* ------------------------------------------------------------------ bytes

\* A storage cell that was never written (MaybeUninit::uninit()).
Uninit == 0 - 1
\* The byte a fully initialised constructor input is made of.
CtorBytes == {9}
\* The byte sequences append() is given: the prefixes of 6, 7, 6, 7, ...
AppendInputs == {[i \in 1..k |-> 6 + ((i + 1) % 2)] : k \in 0..(MaxCap + 1)}
\* The byte sequence a source holds, 1, 2, 3, 1, 2, ...: neighbours differ.
Data == [i \in 1..DataLen |-> 1 + ((i - 1) % 3)]

Max(a, b) == IF a >= b THEN a ELSE b
Min(a, b) == IF a <= b THEN a ELSE b

\* ------------------------------------------------------------------ cursor

capacity(b) == Len(b.mem)
remaining(b) == capacity(b) - b.filled
filled(b) == SubSeq(b.mem, 1, b.filled)
initialized(b) == SubSeq(b.mem, 1, b.len)

\* The result of an operation: how it ended and the cursor it left.
Done(b) == [st |-> "ok", b |-> b]
Panic(b) == [st |-> "panic", b |-> b]

\* mem with `bytes` copied in at offset `off` (0-based).
write_slice(mem, off, bytes) ==
    [i \in 1..Len(mem) |->
        IF i > off /\ i <= off + Len(bytes) THEN bytes[i - off] ELSE mem[i]]

\* a + n in usize: a build with overflow checks panics, one without wraps.
usize_add(a, n, oc) ==
    IF a + n >= UsizeMod
    THEN IF oc THEN [ovf |-> TRUE, val |-> 0]
               ELSE [ovf |-> FALSE, val |-> (a + n) % UsizeMod]
    ELSE [ovf |-> FALSE, val |-> a + n]

\* set_filled without its assertion.
set_filled_unchecked(b, n) == Done([b EXCEPT !.filled = n])

\* set_filled with the assertion n < self.buf.len().
set_filled_strict(b, n) ==
    IF n < b.len THEN Done([b EXCEPT !.filled = n]) ELSE Panic(b)

\* set_filled moving the mark before it checks.
set_filled_assign_first(b, n) ==
    IF n <= b.len THEN Done([b EXCEPT !.filled = n])
    ELSE Panic([b EXCEPT !.filled = n])

set_filled(b, n) ==
    IF n <= b.len THEN Done([b EXCEPT !.filled = n]) ELSE Panic(b)

add_filled(b, n, oc) ==
    LET s == usize_add(b.filled, n, oc)
    IN IF s.ovf THEN Panic(b) ELSE set_filled(b, s.val)

\* clear forgetting the initialized bytes as well.
clear_truncate(b) == Done([b EXCEPT !.filled = 0, !.len = 0])

clear(b) == set_filled(b, 0)

\* into_inner without its assertion.
into_inner_unchecked(b) == Done(b)

\* into_inner: the storage (bytes and length) is handed back as it is.
into_inner(b) == IF b.filled = b.len THEN Done(b) ELSE Panic(b)

\* assume_init without cmp::max: the watermark is set to filled + n.
assume_init_set(b, n, oc) ==
    LET s == usize_add(b.filled, n, oc)
    IN IF s.ovf THEN Panic(b) ELSE Done([b EXCEPT !.len = s.val])

assume_init(b, n, oc) ==
    LET s == usize_add(b.filled, n, oc)
    IN IF s.ovf THEN Panic(b) ELSE Done([b EXCEPT !.len = Max(b.len, s.val)])

\* Zeroing the whole returned region, initialized bytes included.
zeroed_cells_all(b, n) ==
    IF n > b.len - b.filled THEN (b.filled + 1)..(b.filled + n) ELSE {}

\* Zeroing n bytes of the uninitialized tail, whatever was initialized already.
zeroed_cells_whole_request(b, n) ==
    IF n > b.len - b.filled THEN (b.len + 1)..(b.len + n) ELSE {}

\* The cells of the uninitialized tail that initialize_unfilled_to(n) zeroes.
zeroed_cells(b, n) ==
    LET extra_init == b.len - b.filled
    IN IF n > extra_init THEN (b.len + 1)..(b.len + (n - extra_init)) ELSE {}

\* initialize_unfilled_to without the zeroing loop.
initialize_unfilled_to_nozero(b, n) ==
    IF ~(remaining(b) >= n) THEN Panic(b)
    ELSE IF n > b.len - b.filled THEN assume_init(b, n, TRUE) ELSE Done(b)

\* initialize_unfilled_to refusing a request for all that remains.
initialize_unfilled_to_strict(b, n) ==
    IF ~(remaining(b) > n) THEN Panic(b)
    ELSE LET z == zeroed_cells(b, n)
             zeroed == [b EXCEPT !.mem =
                           [i \in 1..Len(b.mem) |-> IF i \in z THEN 0 ELSE b.mem[i]]]
         IN IF n > b.len - b.filled THEN assume_init(zeroed, n, TRUE) ELSE Done(b)

\* (filled + n <= capacity past the assertion, so the sum in assume_init does
\* not overflow in any build.)
initialize_unfilled_to(b, n) ==
    IF ~(remaining(b) >= n) THEN Panic(b)
    ELSE LET extra_init == b.len - b.filled
             z == zeroed_cells(b, n)
             zeroed == [b EXCEPT !.mem =
                           [i \in 1..Len(b.mem) |-> IF i \in z THEN 0 ELSE b.mem[i]]]
         IN IF n > extra_init THEN assume_init(zeroed, n, TRUE) ELSE Done(b)

initialize_unfilled(b) == initialize_unfilled_to(b, remaining(b))

\* The slice initialize_unfilled_to(n) returns, taken from the cursor it left.
unfilled_view(b, n) == SubSeq(b.mem, b.filled + 1, b.filled + n)

\* append writing after the initialized region instead of the filled one.
append_at_len(b, bytes) ==
    IF ~(remaining(b) >= Len(bytes)) THEN Panic(b)
    ELSE LET written == [b EXCEPT !.mem = write_slice(b.mem, b.len, bytes)]
             r == assume_init(written, Len(bytes), TRUE)
         IN IF r.st = "ok" THEN add_filled(r.b, Len(bytes), TRUE) ELSE r

\* append growing the initialized length by the number of bytes written.
append_len_add(b, bytes) ==
    IF ~(remaining(b) >= Len(bytes)) THEN Panic(b)
    ELSE Done([b EXCEPT !.mem = write_slice(b.mem, b.filled, bytes),
                        !.len = b.len + Len(bytes),
                        !.filled = b.filled + Len(bytes)])

\* (Past the assertion filled + buf.len() <= capacity: no sum overflows.)
append(b, bytes) ==
    IF ~(remaining(b) >= Len(bytes)) THEN Panic(b)
    ELSE LET written == [b EXCEPT !.mem = write_slice(b.mem, b.filled, bytes)]
             r == assume_init(written, Len(bytes), TRUE)
         IN IF r.st = "ok" THEN add_filled(r.b, Len(bytes), TRUE) ELSE r

\* ------------------------------------------------------------ constructors

AllUninit(n) == [i \in 1..n |-> Uninit]
AllOf(n, byte) == [i \in 1..n |-> byte]

new_uninit_array(n) == [filled |-> 0, len |-> 0, mem |-> AllUninit(n)]
from_array(arr) == [filled |-> 0, len |-> Len(arr), mem |-> arr]
\* A Vec taken as initialized up to its capacity.
from_vec_full(prefix, cap) ==
    [filled |-> 0, len |-> cap, mem |-> prefix \o AllUninit(cap - Len(prefix))]
\* A Vec with `prefix` as its elements and `cap` as its capacity.
from_vec(prefix, cap) ==
    [filled |-> 0, len |-> Len(prefix), mem |-> prefix \o AllUninit(cap - Len(prefix))]
from_boxed(n) == [filled |-> 0, len |-> 0, mem |-> AllUninit(n)]
from_slice(arr) == [filled |-> 0, len |-> Len(arr), mem |-> arr]
from_uninit_slice(n) == [filled |-> 0, len |-> 0, mem |-> AllUninit(n)]

\* The constructors, by the name the model gives them.
CtorNames ==
    {"new_uninit_array", "from_array", "from_vec", "from_boxed", "from_slice",
     "from_uninit_slice"}

\* The cursors one constructor can return, over its inputs: a capacity, and
\* for a Vec the length of its initialised prefix.
ConstructedBy(name) ==
    CASE name = "new_uninit_array" -> {new_uninit_array(n) : n \in 1..MaxCap}
      [] name = "from_array" ->
            {from_array(AllOf(n, c)) : n \in 1..MaxCap, c \in CtorBytes}
      [] name = "from_vec" ->
            UNION {{from_vec(AllOf(p, c), n) : p \in 0..n, c \in CtorBytes} :
                      n \in 1..MaxCap}
      [] name = "from_boxed" -> {from_boxed(n) : n \in 1..MaxCap}
      [] name = "from_slice" ->
            {from_slice(AllOf(n, c)) : n \in 1..MaxCap, c \in CtorBytes}
      [] name = "from_uninit_slice" -> {from_uninit_slice(n) : n \in 1..MaxCap}

\* Every cursor a constructor can return.  ReadBuf<S> is generic over the
\* storage S, which decides nothing but the constructor: inline arrays, borrowed
\* slices and heap buffers, each uninitialised or initialised (a Vec up to its
\* length).
Constructed == UNION {ConstructedBy(name) : name \in CtorNames}

\* ------------------------------------------------------------------ source

SourceKinds == {"cursor", "any"}

Good(k) == [kind |-> "ok", w |-> k, n |-> k]

\* What one call source.read(view) can answer, for a view of `vlen` bytes and a
\* source of kind `kind` with `avail` bytes left: w bytes are written at the
\* start of the view and n is the count reported.
\*   cursor: io::Cursor over a byte slice, which copies all it can;
\*   any:    any io::Read: short reads, errors, interrupts, and counts larger
\*           than the view (nothing in the type of read forbids them).
SourceRead(kind, avail, vlen, mayInterrupt) ==
    LET most == Min(avail, vlen)
        errs == {[kind |-> "other", w |-> 0, n |-> 0]}
                \cup (IF mayInterrupt
                      THEN {[kind |-> "interrupted", w |-> 0, n |-> 0]} ELSE {})
    IN CASE kind = "cursor" -> {Good(most)}
         [] kind = "any" ->
                {Good(k) : k \in 0..most} \cup errs
                \cup {[kind |-> "ok", w |-> most, n |-> n] :
                         n \in {vlen + 1, UsizeMod - 1}}

\* default_read_buf handing the source the unfilled part as it is.
default_read_buf_noinit(b, data, out, oc) ==
    IF out.kind # "ok" THEN [st |-> out.kind, b |-> b]
    ELSE add_filled([b EXCEPT !.mem = write_slice(b.mem, b.filled, data)], out.n, oc)

\* default_read_buf handing the source the buffer from its start.
default_read_buf_restart(b, data, out, oc) ==
    LET c == initialize_unfilled(b).b
    IN IF out.kind # "ok" THEN [st |-> out.kind, b |-> c]
       ELSE add_filled([c EXCEPT !.mem = write_slice(c.mem, 0, data)], out.n, oc)

\* default_read_buf, given what the source answers: the view is made defined,
\* the source writes `data` at its start, and the filled mark moves by the
\* count the source reports.  An error of the source is returned as it is.
\* (initialize_unfilled asks for remaining() bytes: its assertion holds.)
default_read_buf(b, data, out, oc) ==
    LET c == initialize_unfilled(b).b
    IN IF out.kind # "ok" THEN [st |-> out.kind, b |-> c]
       ELSE add_filled([c EXCEPT !.mem = write_slice(c.mem, c.filled, data)],
                       out.n, oc)

\* Read::read_buf: the default implementation delegates to read.
read_buf(b, data, out, oc) == default_read_buf(b, data, out, oc)

\* A do-while loop: the body runs before the condition is looked at.
loop_head_dowhile(b) == [pc |-> "loop", res |-> "none"]

\* The head of read_buf_exact's while loop.
loop_head(b) ==
    IF remaining(b) > 0 THEN [pc |-> "loop", res |-> "none"]
                        ELSE [pc |-> "idle", res |-> "ok"]

\* read_buf_exact without the check for progress.
loop_body_nocheck(r, prev_filled) ==
    IF r.st = "panic" THEN [pc |-> "idle", res |-> "panic"]
    ELSE IF r.st = "interrupted" THEN loop_head(r.b)
    ELSE IF r.st # "ok" THEN [pc |-> "idle", res |-> r.st]
    ELSE loop_head(r.b)

\* read_buf_exact without the arm for ErrorKind::Interrupted.
loop_body_nointr(r, prev_filled) ==
    IF r.st = "panic" THEN [pc |-> "idle", res |-> "panic"]
    ELSE IF r.st # "ok" THEN [pc |-> "idle", res |-> r.st]
    ELSE IF r.b.filled = prev_filled THEN [pc |-> "idle", res |-> "eof"]
    ELSE loop_head(r.b)

\* What read_buf_exact does with the result r of one read_buf call, the filled
\* mark having been prev_filled before it.
loop_body(r, prev_filled) ==
    IF r.st = "panic" THEN [pc |-> "idle", res |-> "panic"]
    ELSE IF r.st = "interrupted" THEN loop_head(r.b)
    ELSE IF r.st # "ok" THEN [pc |-> "idle", res |-> r.st]
    ELSE IF r.b.filled = prev_filled THEN [pc |-> "idle", res |-> "eof"]
    ELSE loop_head(r.b)

\* ------------------------------------------------------------------- state

VARIABLES
    buf,        \* the cursor
    srcKind,    \* the kind of the byte source
    pos,        \* how many bytes of Data the source has delivered
    pc,         \* "idle"; "loop": inside read_buf_exact, about to call read_buf;
                \* "gone": the cursor was consumed by into_inner
    op,         \* the last operation called (at first, the constructor)
    res,        \* how it ended
    calls,      \* source.read calls made by the last read operation
    intr,       \* "interrupted" answers the last read_buf_exact got
    entry,      \* the filled mark when the last read operation was entered
    rounds,     \* successful rounds of clear(); read_buf_exact so far
    pure        \* the source was new, nothing but such rounds was done, and
                \* the source answered every read faithfully

vars == <<buf, srcKind, pos, pc, op, res, calls, intr, entry,
          rounds, pure>>

Init ==
    /\ op \in CtorNames
    /\ buf \in ConstructedBy(op)
    /\ srcKind \in SourceKinds
    /\ pos \in {0, DataLen}
    /\ pc = "idle"
    /\ res = "ok"
    /\ calls = 0
    /\ intr = 0
    /\ entry = 0
    /\ rounds = 0
    /\ pure = (pos = 0)

\* A cursor operation that is no read: it ends with result r.
Finish(name, r, keepsPure) ==
    /\ pc = "idle"
    /\ buf' = r.b
    /\ op' = name
    /\ res' = r.st
    /\ calls' = 0
    /\ intr' = 0
    /\ entry' = 0
    /\ pure' = (pure /\ keepsPure)
    /\ rounds' = IF pure' THEN rounds ELSE 0
    /\ UNCHANGED <<srcKind, pos, pc>>

SetFilled(n) == Finish("set_filled", set_filled(buf, n), FALSE)

AddFilled(n, oc) == Finish("add_filled", add_filled(buf, n, oc), FALSE)

Clear == Finish("clear", clear(buf), TRUE)

\* unsafe: the caller asserts bytes it may never have written.
AssumeInit(n, oc) == Finish("assume_init", assume_init(buf, n, oc), FALSE)

InitializeUnfilled ==
    Finish("initialize_unfilled", initialize_unfilled(buf), FALSE)

InitializeUnfilledTo(n) ==
    Finish("initialize_unfilled_to", initialize_unfilled_to(buf, n), FALSE)

AppendCall(bytes) == Finish("append", append(buf, bytes), FALSE)

\* into_inner takes the cursor by value: returned or panicked, it is gone.
IntoInner ==
    /\ pc = "idle"
    /\ LET r == into_inner(buf)
       IN /\ buf' = r.b
          /\ res' = r.st
    /\ op' = "into_inner"
    /\ pc' = "gone"
    /\ calls' = 0
    /\ intr' = 0
    /\ entry' = 0
    /\ pure' = FALSE
    /\ rounds' = 0
    /\ UNCHANGED <<srcKind, pos>>

\* The view default_read_buf hands to source.read: where it starts and the
\* bytes it holds.
GivenView(b) ==
    LET c == initialize_unfilled(b).b
    IN [off |-> c.filled, bytes |-> unfilled_view(c, remaining(c))]

\* The answers the source can give to a read into the unfilled part of buf.
Answers == SourceRead(srcKind, DataLen - pos, remaining(buf), intr < MaxInterrupts)

\* The bytes the source writes when it answers `out`.
Delivered(out) == SubSeq(Data, pos + 1, pos + out.w)

\* The answers of a source that delivers its bytes in order and to the end: an
\* interruption, or a read (short or not) that reports what it wrote and
\* writes at least one byte while the source has one.
Faithful(out) ==
    \/ out.kind = "interrupted"
    \/ out.kind = "ok" /\ out.n = out.w /\ (out.w > 0 \/ pos = DataLen)

\* One call of read_buf on the cursor, outside read_buf_exact.
ReadBuf(out, oc) ==
    /\ pc = "idle"
    /\ LET r == read_buf(buf, Delivered(out), out, oc)
       IN /\ buf' = r.b
          /\ res' = r.st
    /\ op' = "read_buf"
    /\ pos' = pos + out.w
    /\ calls' = 1
    /\ intr' = 0
    /\ entry' = buf.filled
    /\ pure' = FALSE
    /\ rounds' = 0
    /\ UNCHANGED <<srcKind, pc>>

\* read_buf_exact is entered: the while condition is evaluated the first time.
ReadBufExactCall ==
    /\ pc = "idle"
    /\ LET h == loop_head(buf)
       IN /\ pc' = h.pc
          /\ res' = h.res
    /\ op' = "read_buf_exact"
    /\ calls' = 0
    /\ intr' = 0
    /\ entry' = buf.filled
    /\ pure' = (pure /\ buf.filled = 0)
    /\ rounds' = IF pure' THEN rounds ELSE 0
    /\ UNCHANGED <<buf, srcKind, pos>>

\* One iteration of read_buf_exact's loop: a read_buf call, what the loop does
\* with its result, and the while condition again.
ReadBufExactIter(out, oc) ==
    /\ pc = "loop"
    /\ LET prev_filled == buf.filled
           r == read_buf(buf, Delivered(out), out, oc)
           c == loop_body(r, prev_filled)
       IN /\ buf' = r.b
          /\ pc' = c.pc
          /\ res' = c.res
          /\ rounds' = IF ~(pure /\ Faithful(out)) THEN 0
                       ELSE IF c.res = "ok" THEN rounds + 1 ELSE rounds
    /\ pos' = pos + out.w
    /\ calls' = calls + 1
    /\ intr' = IF out.kind = "interrupted" THEN intr + 1 ELSE intr
    /\ pure' = (pure /\ Faithful(out))
    /\ UNCHANGED <<srcKind, op, entry>>

\* The builds that differ on a + n: with overflow checks (TRUE) and without
\* (FALSE).  They differ only when the sum overflows.
Builds(a, n) == IF a + n >= UsizeMod THEN BOOLEAN ELSE {TRUE}

\* The arguments the length-taking operations are tried with.
Lengths == 0..(capacity(buf) + 1) \cup {UsizeMod - 1}

SafeNext ==
    \/ \E n \in Lengths : SetFilled(n)
    \/ \E n \in Lengths : \E oc \in Builds(buf.filled, n) : AddFilled(n, oc)
    \/ Clear
    \/ InitializeUnfilled
    \/ \E n \in Lengths : InitializeUnfilledTo(n)
    \/ \E bytes \in AppendInputs : AppendCall(bytes)
    \/ IntoInner
    \/ \E out \in Answers : \E oc \in Builds(buf.filled, out.n) : ReadBuf(out, oc)
    \/ ReadBufExactCall
    \/ \E out \in Answers : \E oc \in Builds(buf.filled, out.n) :
          ReadBufExactIter(out, oc)

Next ==
    \/ SafeNext
    \/ \E n \in 0..remaining(buf) : \E oc \in Builds(buf.filled, n) : AssumeInit(n, oc)

\* Every operation, assume_init among them.
Spec == Init /\ [][Next]_vars

\* The safe operations only.
SafeSpec == Init /\ [][SafeNext]_vars

\* ------------------------------------------------------------------ claims

\* C1: after every step of every sequence of operations (assume_init(n) with
\* n <= remaining() among them, and calls that fail), 0 <= filled_len <=
\* initialized_len <= capacity.
C1_Invariant ==
    /\ 0 <= buf.filled
    /\ buf.filled <= buf.len
    /\ buf.len <= capacity(buf)

\* assume_init has raised the watermark to the capacity over a filled mark in
\* the middle of the buffer.
C1_Witness ==
    /\ op = "assume_init"
    /\ res = "ok"
    /\ 0 < buf.filled
    /\ buf.filled < buf.len
    /\ buf.len = capacity(buf)

\* C2: under the safe operations every byte below initialized_len has been
\* written: by the constructor's input, a zero-fill, an append or the source.
C2_InitializedDefined == \A i \in 1..buf.len : buf.mem[i] # Uninit

\* An uninitialised buffer of two bytes after an append of one byte and a
\* zero-fill of the other.
C2_Witness ==
    /\ capacity(buf) = 2
    /\ buf.len = 2
    /\ buf.mem[1] \in {6, 7}
    /\ buf.mem[2] = 0

\* C3: initialized_len never decreases, whatever the operation and however it
\* ends.
C3_Monotone == [][buf'.len >= buf.len]_vars

\* assume_init, called with no more bytes than the watermark already covers,
\* has left the watermark where it was.
C3_Witness ==
    /\ op = "assume_init"
    /\ res = "ok"
    /\ buf.filled = 0
    /\ buf.len = capacity(buf)

\* C4: read_buf_exact returns success only with remaining() == 0, and entered
\* with remaining() == 0 it returns success with no source call and the cursor
\* as it was.
C4_ExactSuccess ==
    [][/\ (op' = "read_buf_exact" /\ pc' = "idle" /\ res' = "ok")
             => remaining(buf') = 0
       /\ (ReadBufExactCall /\ remaining(buf) = 0)
             => /\ pc' = "idle"
                /\ res' = "ok"
                /\ calls' = 0
                /\ pos' = pos
                /\ buf' = buf]_vars

\* read_buf_exact, entered with a full cursor, has returned success at once.
C4_Witness ==
    /\ op = "read_buf_exact"
    /\ pc = "idle"
    /\ res = "ok"
    /\ calls = 0
    /\ entry = capacity(buf)

\* C5: an iteration of read_buf_exact whose read_buf succeeded without moving
\* the filled mark had a source that reported 0 bytes, and ends the call with
\* "unexpected end of input"; a source with no bytes and a cursor with
\* filled_len == 0 fail so on the first iteration, filled_len still 0.
C5_NoProgressIsEof ==
    [][pc = "loop" => \A out \in Answers, oc \in BOOLEAN :
          ReadBufExactIter(out, oc) =>
             /\ (out.kind = "ok" /\ res' # "panic" /\ buf'.filled = buf.filled)
                   => (out.n = 0 /\ pc' = "idle" /\ res' = "eof")
             /\ (calls = 0 /\ pos = DataLen /\ out = Good(0) /\ buf.filled = 0)
                   => (pc' = "idle" /\ res' = "eof" /\ buf'.filled = 0)]_vars

\* read_buf_exact on an empty cursor has failed with "unexpected end of input"
\* on its first read, the source having no bytes.
C5_Witness ==
    /\ op = "read_buf_exact"
    /\ pc = "idle"
    /\ res = "eof"
    /\ calls = 1
    /\ entry = 0
    /\ buf.filled = 0
    /\ pos = DataLen

\* C6: read_buf_exact never returns an "interrupted" error: after one the loop
\* is about to call the source again, the filled mark where it was.
C6_InterruptedRetried ==
    [][/\ (op' = "read_buf_exact" /\ pc' = "idle") => res' # "interrupted"
       /\ pc = "loop" => \A out \in Answers, oc \in BOOLEAN :
             (ReadBufExactIter(out, oc) /\ out.kind = "interrupted")
                => (pc' = "loop" /\ buf'.filled = buf.filled)]_vars

\* read_buf_exact has filled the cursor although the source interrupted it.
C6_Witness ==
    /\ op = "read_buf_exact"
    /\ pc = "idle"
    /\ res = "ok"
    /\ intr > 0
    /\ calls > intr

\* C7: when the source fails with an error that is not "interrupted",
\* read_buf_exact returns that error at once and the filled mark is where it
\* was before the failing call, which is at or above where it was at entry.
C7_ErrorKeepsFilled ==
    [][pc = "loop" => \A out \in Answers, oc \in BOOLEAN :
          (ReadBufExactIter(out, oc) /\ out.kind = "other")
             => /\ pc' = "idle"
                /\ res' = "other"
                /\ buf'.filled = buf.filled
                /\ buf'.filled >= entry]_vars

\* C8: read_buf hands the source a fully defined view of remaining() bytes
\* starting at filled_len and calls it once; a count n <= remaining() moves
\* filled_len by n, the n new bytes being those the source wrote and the old
\* ones unchanged; an error is returned as it is with filled_len unchanged;
\* either way initialized_len == capacity afterwards.
C8_ReadBuf ==
    [][op' = "read_buf" =>
          /\ LET v == GivenView(buf)
             IN /\ v.off = buf.filled
                /\ Len(v.bytes) = remaining(buf)
                /\ \A i \in 1..remaining(buf) : v.bytes[i] # Uninit
          /\ calls' = 1
          /\ capacity(buf') = capacity(buf)
          /\ buf'.len = capacity(buf)
          /\ \A out \in Answers, oc \in BOOLEAN :
                ReadBuf(out, oc) =>
                   /\ (out.kind = "ok" /\ out.n <= remaining(buf))
                         => /\ res' = "ok"
                            /\ buf'.filled = buf.filled + out.n
                            /\ filled(buf') = filled(buf) \o Delivered(out)
                   /\ out.kind # "ok"
                         => /\ res' = out.kind
                            /\ buf'.filled = buf.filled]_vars

\* read_buf has added one byte of the source to a cursor that held one.
C8_Witness ==
    /\ op = "read_buf"
    /\ res = "ok"
    /\ entry = 1
    /\ buf.filled = 2
    /\ buf.mem[2] \in {1, 2, 3}

\* C9: in rounds of clear(); read_buf_exact on a cursor of capacity c against
\* a new source holding Data, the k-th successful round leaves filled() ==
\* Data[(k-1)*c+1 .. k*c] with k*c bytes consumed, and a round fails, with
\* "unexpected end of input", only when fewer than c bytes were left.
C9_Rounds ==
    (pure /\ op = "read_buf_exact" /\ pc = "idle") =>
        /\ res \in {"ok", "eof"}
        /\ res = "ok" =>
              /\ rounds >= 1
              /\ pos = rounds * capacity(buf)
              /\ filled(buf) = SubSeq(Data, (rounds - 1) * capacity(buf) + 1,
                                      rounds * capacity(buf))
        /\ res = "eof" =>
              /\ pos = DataLen
              /\ DataLen - rounds * capacity(buf) < capacity(buf)

\* The second round on a cursor of two bytes has succeeded.
C9_Witness ==
    /\ pure
    /\ op = "read_buf_exact"
    /\ pc = "idle"
    /\ res = "ok"
    /\ capacity(buf) = 2
    /\ rounds = 2
    /\ calls = 2

\* C10: set_filled(n) succeeds exactly when n <= initialized_len; then
\* filled_len == n, grown or shrunk; initialized_len and the bytes stay.
C10_SetFilled ==
    [][op' = "set_filled" => \A n \in Lengths :
          SetFilled(n) =>
             /\ res' \in {"ok", "panic"}
             /\ res' = "ok" <=> n <= buf.len
             /\ res' = "ok" => buf'.filled = n
             /\ res' = "panic" => buf'.filled = buf.filled
             /\ buf'.len = buf.len
             /\ buf'.mem = buf.mem]_vars

\* set_filled(initialized_len) has succeeded on a cursor with defined bytes.
C10_Witness ==
    /\ op = "set_filled"
    /\ res = "ok"
    /\ buf.len > 0
    /\ buf.filled = buf.len

\* C11: add_filled(n) succeeds exactly when filled_len + n <= initialized_len,
\* and then filled_len has grown by n; in every case initialized_len stays and a
\* failure leaves filled_len alone.  For every state, every n, every build.
C11_AddFilled ==
    [][op' = "add_filled" => \A n \in Lengths : \A oc \in Builds(buf.filled, n) :
          AddFilled(n, oc) =>
             /\ res' \in {"ok", "panic"}
             /\ res' = "ok" <=> buf.filled + n <= buf.len
             /\ res' = "ok" => buf'.filled = buf.filled + n
             /\ res' = "panic" => buf'.filled = buf.filled
             /\ buf'.len = buf.len]_vars

\* C12: assume_init(n), for n within the unfilled region, sets initialized_len
\* to the larger of its old value and filled_len + n and changes nothing else;
\* it changes nothing at all when filled_len + n <= initialized_len, and a
\* second call with the same n changes nothing more.
C12_AssumeInit ==
    [][op' = "assume_init" => \A n \in 0..remaining(buf) :
          \A oc \in Builds(buf.filled, n) :
             AssumeInit(n, oc) =>
                /\ res' = "ok"
                /\ buf'.len = IF buf.len >= buf.filled + n
                                 THEN buf.len ELSE buf.filled + n
                /\ buf'.filled = buf.filled
                /\ buf'.mem = buf.mem
                /\ buf.filled + n <= buf.len => buf' = buf
                /\ assume_init(buf', n, oc) = Done(buf')]_vars

\* assume_init has raised the watermark over a byte nothing has written, on a
\* cursor that has bytes filled.
C12_Witness ==
    /\ op = "assume_init"
    /\ res = "ok"
    /\ buf.filled > 0
    /\ buf.len > buf.filled
    /\ buf.mem[buf.len] = Uninit

\* C13: initialize_unfilled_to(n) with n <= remaining() succeeds and returns
\* the n bytes after the filled region: filled_len stays, initialized_len is
\* the larger of its old value and filled_len + n, every byte below the old
\* initialized_len keeps its value and every byte from there up to
\* filled_len + n reads zero.  initialize_unfilled() does the same with
\* n = remaining() and leaves initialized_len == capacity.
C13_InitializeUnfilledTo ==
    [][op' \in {"initialize_unfilled_to", "initialize_unfilled"} =>
          \A n \in 0..remaining(buf) :
             (\/ InitializeUnfilledTo(n)
              \/ (n = remaining(buf) /\ InitializeUnfilled)) =>
                /\ res' = "ok"
                /\ buf'.filled = buf.filled
                /\ buf'.len = IF buf.len >= buf.filled + n
                                 THEN buf.len ELSE buf.filled + n
                /\ Len(buf'.mem) = Len(buf.mem)
                /\ \A i \in 1..buf.len : buf'.mem[i] = buf.mem[i]
                /\ \A i \in (buf.len + 1)..(buf.filled + n) : buf'.mem[i] = 0
                /\ unfilled_view(buf', n) =
                      [i \in 1..n |-> IF buf.filled + i <= buf.len
                                         THEN buf.mem[buf.filled + i] ELSE 0]
                /\ op' = "initialize_unfilled" => buf'.len = capacity(buf)]_vars

\* initialize_unfilled_to has returned a region of two bytes, the first one
\* initialized before the call and kept, the second one zeroed by it.
C13_Witness ==
    /\ op = "initialize_unfilled_to"
    /\ res = "ok"
    /\ buf.filled = 0
    /\ buf.len = 2
    /\ buf.mem[1] \in CtorBytes
    /\ buf.mem[2] = 0

\* C14: append(b) with Len(b) <= remaining() succeeds; afterwards the filled
\* view is the old filled view followed by b, and filled_len has grown by
\* Len(b).
C14_Append ==
    [][op' = "append" => \A bytes \in AppendInputs :
          (Len(bytes) <= remaining(buf) /\ AppendCall(bytes)) =>
             /\ res' = "ok"
             /\ filled(buf') = filled(buf) \o bytes
             /\ buf'.filled = buf.filled + Len(bytes)]_vars

\* A second append has completed two filled bytes.
C14_Witness ==
    /\ op = "append"
    /\ res = "ok"
    /\ buf.filled = 2
    /\ filled(buf) = <<6, 6>>

\* C15 as stated: after a successful append(bytes), filled_len and
\* initialized_len have both advanced by Len(bytes), also when
\* initialized_len > filled_len before the call.
C15_AppendAdvancesBoth ==
    [][op' = "append" => \A bytes \in AppendInputs :
          (AppendCall(bytes) /\ res' = "ok") =>
             /\ buf'.filled = buf.filled + Len(bytes)
             /\ buf'.len = buf.len + Len(bytes)]_vars

\* C15 amended: after a successful append(bytes), filled_len has advanced by
\* Len(bytes) and initialized_len is the larger of its old value and the new
\* filled_len: it advances by Len(bytes) only when it was equal to filled_len.
C15_AppendAdvances ==
    [][op' = "append" => \A bytes \in AppendInputs :
          (AppendCall(bytes) /\ res' = "ok") =>
             /\ buf'.filled = buf.filled + Len(bytes)
             /\ buf'.len = IF buf.len >= buf'.filled THEN buf.len ELSE buf'.filled
             /\ buf.len = buf.filled => buf'.len = buf.len + Len(bytes)]_vars

\* An append has succeeded over bytes that were initialized already: the
\* filled region holds an appended byte, the initialized region ends in a
\* byte of the constructor.
C15_Witness ==
    /\ op = "append"
    /\ res = "ok"
    /\ buf.filled = 1
    /\ buf.len = 2
    /\ buf.mem[1] = 6
    /\ buf.mem[2] \in CtorBytes

\* C16: initialize_unfilled_to(n) fails exactly when n > remaining(), and
\* append(bytes) exactly when Len(bytes) > remaining(): n == remaining()
\* succeeds, remaining() + 1 fails, in every state.
C16_Boundary ==
    [][op' \in {"initialize_unfilled_to", "append"} =>
          /\ \A n \in Lengths :
                InitializeUnfilledTo(n) =>
                   /\ res' \in {"ok", "panic"}
                   /\ res' = "panic" <=> n > remaining(buf)
          /\ \A bytes \in AppendInputs :
                AppendCall(bytes) =>
                   /\ res' \in {"ok", "panic"}
                   /\ res' = "panic" <=> Len(bytes) > remaining(buf)]_vars

\* initialize_unfilled_to has succeeded up to the last byte of a cursor that
\* has bytes filled: the whole storage is initialized, its last byte zero.
C16_Witness ==
    /\ op = "initialize_unfilled_to"
    /\ res = "ok"
    /\ buf.filled > 0
    /\ buf.len = capacity(buf)
    /\ buf.mem[capacity(buf)] = 0

\* C17: a call of set_filled, add_filled, initialize_unfilled_to or append
\* that fails with an invariant violation leaves filled_len, initialized_len
\* and every byte as they were.
C17_FailureKeepsCursor ==
    [][(/\ op' \in {"set_filled", "add_filled", "initialize_unfilled_to", "append"}
        /\ res' = "panic") => buf' = buf]_vars

\* An append has failed on a cursor with a filled byte and an initialized
\* region beyond it.
C17_Witness ==
    /\ op = "append"
    /\ res = "panic"
    /\ buf.filled = 1
    /\ buf.len = 2

\* C18: clear() never fails; afterwards filled_len == 0 and remaining() ==
\* capacity, and initialized_len and every byte of the initialized view are
\* as before.
C18_Clear ==
    [][op' = "clear" =>
          /\ res' = "ok"
          /\ buf'.filled = 0
          /\ remaining(buf') = capacity(buf')
          /\ capacity(buf') = capacity(buf)
          /\ buf'.len = buf.len
          /\ initialized(buf') = initialized(buf)]_vars

\* clear has emptied a cursor whose two bytes came from the source.
C18_Witness ==
    /\ op = "clear"
    /\ res = "ok"
    /\ buf.filled = 0
    /\ buf.len = 2
    /\ initialized(buf) = SubSeq(Data, 1, 2)

\* C19: every constructor returns a cursor with filled_len == 0 and
\* remaining() == capacity; over initialized storage (an array, a slice of
\* bytes) initialized_len == capacity, over uninitialized storage
\* initialized_len == 0, and over a Vec initialized_len is the number of
\* elements the Vec holds.
C19_Constructors ==
    op \in CtorNames =>
       /\ buf.filled = 0
       /\ remaining(buf) = capacity(buf)
       /\ op \in {"from_array", "from_slice"} => buf.len = capacity(buf)
       /\ op \in {"new_uninit_array", "from_boxed", "from_uninit_slice"} =>
             buf.len = 0
       /\ op = "from_vec" =>
             buf.len = Cardinality({i \in 1..capacity(buf) : buf.mem[i] # Uninit})

\* A Vec of one element and capacity two has been made into a cursor.
C19_Witness ==
    /\ op = "from_vec"
    /\ capacity(buf) = 2
    /\ buf.len = 1
    /\ buf.mem[1] \in CtorBytes
    /\ buf.mem[2] = Uninit

\* C20: into_inner succeeds exactly when filled_len == initialized_len, and
\* then hands back the storage as it is; with filled_len < initialized_len it
\* fails with an invariant violation.
C20_IntoInner ==
    [][op' = "into_inner" =>
          /\ res' \in {"ok", "panic"}
          /\ res' = "ok" <=> buf.filled = buf.len
          /\ res' = "panic" <=> buf.filled < buf.len
          /\ res' = "ok" => buf' = buf]_vars

\* into_inner has failed on a cursor that was cleared after two bytes of the
\* source had been filled in.
C20_Witness ==
    /\ op = "into_inner"
    /\ res = "panic"
    /\ pc = "gone"
    /\ buf.filled = 0
    /\ initialized(buf) = SubSeq(Data, 1, 2)

\* C21: inside read_buf_exact every source call that is not interrupted moves
\* filled_len forward by at least one or ends the loop, so the loop makes at
\* most remaining()-at-entry calls that are not interrupted and ends once the
\* source stops answering "interrupted".
C21_BoundedCalls ==
    /\ op = "read_buf_exact" => calls - intr <= capacity(buf) - entry
    /\ (op = "read_buf_exact" /\ pc = "loop") => buf.filled >= entry + (calls - intr)

\* C22: a byte position is zero-filled at most once and never below
\* initialized_len: every call of initialize_unfilled_to / initialize_unfilled
\* (read_buf makes one) zeroes only positions at or above initialized_len and
\* leaves them below it, and initialized_len never goes down.  After
\* initialize_unfilled_to(n), a call initialize_unfilled_to(m) with m <= n
\* zeroes nothing, changes nothing and returns the first m bytes of the first
\* view.
C22_ZeroFillOnce ==
    [][/\ buf'.len >= buf.len
       /\ (op' \in {"initialize_unfilled", "read_buf"} \/ pc = "loop") =>
             \A i \in zeroed_cells(buf, remaining(buf)) :
                i > buf.len /\ i <= buf'.len
       /\ op' = "initialize_unfilled_to" =>
             \A n \in 0..remaining(buf) :
                InitializeUnfilledTo(n) =>
                   /\ \A i \in zeroed_cells(buf, n) : i > buf.len /\ i <= buf'.len
                   /\ \A m \in 0..n :
                         /\ zeroed_cells(buf', m) = {}
                         /\ initialize_unfilled_to(buf', m) = Done(buf')
                         /\ unfilled_view(buf', m)
                               = SubSeq(unfilled_view(buf', n), 1, m)]_vars

\* initialize_unfilled_to has zeroed the byte after an appended one, and
\* nothing beyond it.
C22_Witness ==
    /\ op = "initialize_unfilled_to"
    /\ res = "ok"
    /\ capacity(buf) = 2
    /\ buf.filled = 1
    /\ buf.len = 2
    /\ buf.mem = <<6, 0>>

\* C23: when the source reports more bytes than the view it was given holds
\* (a count above remaining()), read_buf fails with an invariant violation:
\* filled_len keeps its value and does not exceed capacity, and
\* initialized_len has been raised to capacity.
C23_OverReportPanics ==
    [][op' = "read_buf" => \A out \in Answers :
          \A oc \in Builds(buf.filled, out.n) :
             (/\ ReadBuf(out, oc)
              /\ out.kind = "ok"
              /\ out.n > remaining(buf)) =>
                /\ res' = "panic"
                /\ buf'.filled = buf.filled
                /\ buf'.filled <= capacity(buf')
                /\ buf'.len = capacity(buf')]_vars

====
